---- MODULE Spec2Model ----
(***************************************************************************)
(* A model of the multi-agent log analysis pipeline (main.py and agents/). *)
(*                                                                         *)
(* Text that the program parses (the planning response, role labels, task  *)
(* texts) is a sequence of one-character strings, so that split, strip,    *)
(* lower, substring containment and the worker regular expression are      *)
(* computed as the code computes them.  Text that the program only passes  *)
(* on (the query, the evidence, the analyses, the verdict) is a string;    *)
(* the aggregator's assessment is the list of findings its text names.     *)
(***************************************************************************)
EXTENDS Integers, Sequences, FiniteSets, TLC

(***************************************************************************)
(* Characters and Python's str operations                                  *)
(***************************************************************************)
Digits == {"0","1","2","3","4","5","6","7","8","9"}

Whitespace == {" ", "\n", "\t", "\r", "\f"}

UpperToLower ==
    [c \in {"A","B","C","D","E","F","G","H","I","J","K","L","M",
            "N","O","P","Q","R","S","T","U","V","W","X","Y","Z"} |->
       CASE c = "A" -> "a" [] c = "B" -> "b" [] c = "C" -> "c" [] c = "D" -> "d"
         [] c = "E" -> "e" [] c = "F" -> "f" [] c = "G" -> "g" [] c = "H" -> "h"
         [] c = "I" -> "i" [] c = "J" -> "j" [] c = "K" -> "k" [] c = "L" -> "l"
         [] c = "M" -> "m" [] c = "N" -> "n" [] c = "O" -> "o" [] c = "P" -> "p"
         [] c = "Q" -> "q" [] c = "R" -> "r" [] c = "S" -> "s" [] c = "T" -> "t"
         [] c = "U" -> "u" [] c = "V" -> "v" [] c = "W" -> "w" [] c = "X" -> "x"
         [] c = "Y" -> "y" [] c = "Z" -> "z"]

\* str.lower()
Lower(s) ==
    [i \in 1..Len(s) |-> IF s[i] \in DOMAIN UpperToLower THEN UpperToLower[s[i]] ELSE s[i]]

\* s[a-1 : b-1] of Python, with 1-based a and exclusive 1-based b
Slice(s, a, b) == IF b <= a THEN <<>> ELSE SubSeq(s, a, b - 1)

\* s.startswith(sub, p-1)
MatchAt(s, sub, p) ==
    /\ p >= 1
    /\ p + Len(sub) - 1 <= Len(s)
    /\ \A k \in 1..Len(sub) : s[p + k - 1] = sub[k]

\* sub in s
Contains(s, sub) == \E p \in 1..(Len(s) + 1) : MatchAt(s, sub, p)

\* s.find(sub, p-1) + 1, and 0 when sub does not occur from position p on
Find(s, sub, p) ==
    LET hits == {q \in p..(Len(s) + 1) : MatchAt(s, sub, q)}
    IN  IF hits = {} THEN 0 ELSE CHOOSE q \in hits : \A r \in hits : q <= r

\* s.split(sep)[0]
SplitFirst(s, sep) ==
    LET q == Find(s, sep, 1)
    IN  IF q = 0 THEN s ELSE Slice(s, 1, q)

\* s.split(sep)[1], for an s that contains sep
SplitSecond(s, sep) ==
    LET q    == Find(s, sep, 1)
        rest == Slice(s, q + Len(sep), Len(s) + 1)
    IN  SplitFirst(rest, sep)

\* s.strip()
Strip(s) ==
    LET keep == {i \in 1..Len(s) : s[i] \notin Whitespace}
    IN  IF keep = {} THEN <<>>
        ELSE LET lo == CHOOSE i \in keep : \A j \in keep : i <= j
                 hi == CHOOSE i \in keep : \A j \in keep : i >= j
             IN  SubSeq(s, lo, hi)

\* re.sub(r'\*+', '', s)
RemoveAsterisks(s) == SelectSeq(s, LAMBDA c : c # "*")

(***************************************************************************)
(* The worker pattern of the planner (planner.py line 101), with re.DOTALL: *)
(*   (\d+)\.\s*([^:]+?)(?:\s*:\s*|\s+)(.*?)(?=\d+\.\s*[^:]+:|$)            *)
(* matched as a backtracking matcher does: a greedy part tries its longest *)
(* extent first, a lazy part its shortest, the first alternative before    *)
(* the second.                                                             *)
(***************************************************************************)
\* The position after the longest run of characters of class C starting at p
RunEnd(s, p, C) ==
    CHOOSE q \in p..(Len(s) + 1) :
        /\ q = Len(s) + 1 \/ s[q] \notin C
        /\ \A r \in p..(q - 1) : s[r] \in C

\* \d+\.\s*[^:]+:  matches at e
NextWorkerAhead(s, e) ==
    LET d == RunEnd(s, e, Digits)
        f == d + 1
    IN  /\ d > e
        /\ d <= Len(s)
        /\ s[d] = "."
        /\ f <= Len(s)
        /\ s[f] # ":"
        /\ \E k \in (f + 1)..Len(s) : s[k] = ":"

\* (?=\d+\.\s*[^:]+:|$)  at e; $ is the end, or the place before a final newline
LookaheadOK(s, e) ==
    \/ NextWorkerAhead(s, e)
    \/ e = Len(s) + 1
    \/ e = Len(s) /\ s[e] = "\n"

\* \s*:\s*  matches at b
SepColon(s, b) ==
    LET w == RunEnd(s, b, Whitespace)
    IN  w <= Len(s) /\ s[w] = ":"

\* \s+  matches at b
SepSpace(s, b) == b <= Len(s) /\ s[b] \in Whitespace

\* The ends b of a role [^:]+? that starts at a and is followed by the separator
RoleEnds(s, a) ==
    {b \in (a + 1)..Len(s) :
        /\ \A r \in a..(b - 1) : s[r] # ":"
        /\ SepColon(s, b) \/ SepSpace(s, b)}

\* One match attempt of the pattern at position p:
\* [ok, role, tasks, end], groups 2 and 3 and the position after the match
MatchFrom(s, p) ==
    LET d      == RunEnd(s, p, Digits)
        q0     == d + 1
        starts == {a \in q0..RunEnd(s, q0, Whitespace) : RoleEnds(s, a) # {}}
        fail   == [ok |-> FALSE, role |-> <<>>, tasks |-> <<>>, end |-> p]
    IN  IF ~(d > p /\ d <= Len(s) /\ s[d] = ".") THEN fail
        ELSE IF starts = {} THEN fail
        ELSE
          LET a == CHOOSE x \in starts : \A y \in starts : x >= y
              b == CHOOSE x \in RoleEnds(s, a) : \A y \in RoleEnds(s, a) : x <= y
              c == IF SepColon(s, b)
                     THEN RunEnd(s, RunEnd(s, b, Whitespace) + 1, Whitespace)
                     ELSE RunEnd(s, b, Whitespace)
              ends == {e \in c..(Len(s) + 1) : LookaheadOK(s, e)}
              e == CHOOSE x \in ends : \A y \in ends : x <= y
          IN  [ok |-> TRUE, role |-> Slice(s, a, b), tasks |-> Slice(s, c, e), end |-> e]

\* re.findall(worker_pattern, s, re.DOTALL) from position p on:
\* the (role, tasks) groups of the successive non-overlapping matches
RECURSIVE FindAllFrom(_, _)
FindAllFrom(s, p) ==
    IF p > Len(s) THEN <<>>
    ELSE LET m == MatchFrom(s, p)
         IN  IF m.ok
               THEN <<[role |-> m.role, tasks |-> m.tasks]>>
                      \o FindAllFrom(s, IF m.end > p THEN m.end ELSE p + 1)
               ELSE FindAllFrom(s, p + 1)

FindAll(s) == FindAllFrom(s, 1)

(***************************************************************************)
(* The closed set of specialist roles and the two role resolvers           *)
(***************************************************************************)
InitialAccess ==
    <<"I","n","i","t","i","a","l"," ","A","c","c","e","s","s"," ","S","p","e","c","i","a","l","i","s","t">>

Execution ==
    <<"E","x","e","c","u","t","i","o","n"," ","S","p","e","c","i","a","l","i","s","t">>

Persistence ==
    <<"P","e","r","s","i","s","t","e","n","c","e"," ","S","p","e","c","i","a","l","i","s","t">>

PrivilegeEscalation ==
    <<"P","r","i","v","i","l","e","g","e"," ","E","s","c","a","l","a","t","i","o","n"," ","S","p","e","c","i","a","l","i","s","t">>

DefenseEvasion ==
    <<"D","e","f","e","n","s","e"," ","E","v","a","s","i","o","n"," ","S","p","e","c","i","a","l","i","s","t">>

CredentialAccess ==
    <<"C","r","e","d","e","n","t","i","a","l"," ","A","c","c","e","s","s"," ","S","p","e","c","i","a","l","i","s","t">>

Discovery ==
    <<"D","i","s","c","o","v","e","r","y"," ","S","p","e","c","i","a","l","i","s","t">>

LateralMovement ==
    <<"L","a","t","e","r","a","l"," ","M","o","v","e","m","e","n","t"," ","S","p","e","c","i","a","l","i","s","t">>

Collection ==
    <<"C","o","l","l","e","c","t","i","o","n"," ","S","p","e","c","i","a","l","i","s","t">>

Exfiltration ==
    <<"E","x","f","i","l","t","r","a","t","i","o","n"," ","S","p","e","c","i","a","l","i","s","t">>

\* valid_roles of Planner.__call__, in list order
planner_valid_roles ==
    <<InitialAccess, Execution, Persistence, PrivilegeEscalation, DefenseEvasion,
      CredentialAccess, Discovery, LateralMovement, Collection, Exfiltration>>

\* factory_valid_roles with one name typed differently than in the planner's list
factory_valid_roles_Drifted ==
    <<InitialAccess, Execution, Persistence, PrivilegeEscalation, DefenseEvasion,
      CredentialAccess, Discovery,
      <<"L","a","t","e","r","a","l"," ","m","o","v","e","m","e","n","t"," ","S","p","e","c","i","a","l","i","s","t">>,
      Collection, Exfiltration>>

\* valid_roles of WorkerFactory.create_worker, in list order
factory_valid_roles ==
    <<InitialAccess, Execution, Persistence, PrivilegeEscalation, DefenseEvasion,
      CredentialAccess, Discovery, LateralMovement, Collection, Exfiltration>>

\* FirstContaining comparing the label and the names as they are written
FirstContaining_CaseSensitive(roles, role) ==
    LET hits == {i \in 1..Len(roles) : Contains(roles[i], role)}
    IN  IF hits = {} THEN Discovery
        ELSE roles[CHOOSE i \in hits : \A j \in hits : i <= j]

\* FirstContaining without the break: the last containing role wins
FirstContaining_LastMatch(roles, role) ==
    LET hits == {i \in 1..Len(roles) : Contains(Lower(roles[i]), Lower(role))}
    IN  IF hits = {} THEN Discovery
        ELSE roles[CHOOSE i \in hits : \A j \in hits : i >= j]

\* FirstContaining without the else branch: an unknown label is kept
FirstContaining_KeepsUnknown(roles, role) ==
    LET hits == {i \in 1..Len(roles) : Contains(Lower(roles[i]), Lower(role))}
    IN  IF hits = {} THEN role
        ELSE roles[CHOOSE i \in hits : \A j \in hits : i <= j]

\* The for/else over valid_roles: the first role whose lower-cased name contains
\* the lower-cased label, and the default role when there is none
FirstContaining(roles, role) ==
    LET hits == {i \in 1..Len(roles) : Contains(Lower(roles[i]), Lower(role))}
    IN  IF hits = {} THEN Discovery
        ELSE roles[CHOOSE i \in hits : \A j \in hits : i <= j]

\* Role validation of the planner
PlannerResolveRole(role) ==
    IF \E i \in 1..Len(planner_valid_roles) : planner_valid_roles[i] = role
      THEN role
      ELSE FirstContaining(planner_valid_roles, role)

\* Role validation of the worker factory
FactoryResolveRole(role) ==
    IF \E i \in 1..Len(factory_valid_roles) : factory_valid_roles[i] = role
      THEN role
      ELSE FirstContaining(factory_valid_roles, role)

(***************************************************************************)
(* The plan parser of the planner                                          *)
(***************************************************************************)
PLAN == <<"P","L","A","N",":">>

WORKERS == <<"W","O","R","K","E","R","S",":">>

\* One (role, tasks) match turned into a worker definition
WorkerDefinition(m) ==
    [role  |-> PlannerResolveRole(RemoveAsterisks(Strip(m.role))),
     tasks |-> RemoveAsterisks(Strip(m.tasks))]

\* ParsePlan testing for the workers marker only
ParsePlan_WorkersMarkerOnly(content) ==
    IF Contains(content, WORKERS)
      THEN LET workers_raw == Strip(SplitSecond(content, WORKERS))
               matches     == FindAll(workers_raw)
           IN  [plan |-> Strip(SplitFirst(content, WORKERS)),
                worker_definitions |->
                    [i \in 1..Len(matches) |-> WorkerDefinition(matches[i])]]
      ELSE [plan |-> <<>>, worker_definitions |-> <<>>]

\* plan_section and workers_section of a planning response
ParsePlan(content) ==
    IF Contains(content, PLAN) /\ Contains(content, WORKERS)
      THEN LET workers_raw == Strip(SplitSecond(content, WORKERS))
               matches     == FindAll(workers_raw)
           IN  [plan |-> Strip(SplitFirst(SplitSecond(content, PLAN), WORKERS)),
                worker_definitions |->
                    [i \in 1..Len(matches) |-> WorkerDefinition(matches[i])]]
      ELSE [plan |-> <<>>, worker_definitions |-> <<>>]

(***************************************************************************)
(* Inputs: what the collaborators can answer                               *)
(***************************************************************************)
NL == <<"\n">>

\* A numbered line "n. label: task" of a planning response
Line(n, label, task) == <<n, ".", " ">> \o label \o <<":", " ">> \o task

\* A response in the format the planner's prompt asks for
ResponseFive ==
    PLAN \o <<" ", "p">> \o NL \o WORKERS \o NL
      \o Line("1", InitialAccess, <<"a">>) \o NL
      \o Line("2", Execution, <<"b">>) \o NL
      \o Line("3", Persistence, <<"c">>) \o NL
      \o Line("4", PrivilegeEscalation, <<"d">>) \o NL
      \o Line("5", DefenseEvasion, <<"e">>)

\* A response that names two workers only, one of them by an unknown label
ResponseTwo ==
    PLAN \o <<" ", "p", " ">> \o WORKERS \o <<" ">>
      \o Line("1", <<"L","a","t","e","r","a","l">>, <<"a">>) \o <<" ">>
      \o Line("2", <<"Z","e","d">>, <<"b">>)

Lateral == <<"L","a","t","e","r","a","l">>

\* A response with one numbered line more than there are worker slots
ResponseSix ==
    PLAN \o <<" ", "p">> \o NL \o WORKERS \o NL
      \o Line("1", Lateral, <<"a">>) \o NL
      \o Line("2", <<"E","x","e","c","u","t","i","o","n">>, <<"b">>) \o NL
      \o Line("3", <<"P","e","r","s","i","s","t","e","n","c","e">>, <<"c">>) \o NL
      \o Line("4", <<"D","i","s","c","o","v","e","r","y">>, <<"d">>) \o NL
      \o Line("5", <<"C","o","l","l","e","c","t","i","o","n">>, <<"e">>) \o NL
      \o Line("6", <<"E","x","f","i","l","t","r","a","t","i","o","n">>, <<"f">>)

\* A response without the markers
ResponseNoMarkers == <<"n","o"," ","p","l","a","n">>

PlannerResponses == {ResponseFive, ResponseTwo, ResponseSix, ResponseNoMarkers}

WorkerTexts == {"analysis_a", "analysis_b"}

\* What Critique's text-generation call can answer: findings under the headings
\* of the system prompt's format, each with its "Evidence from Worker X" lines.
\* One answer follows the counts the headings name; the other puts a finding
\* that a single worker supports under HIGH CONFIDENCE and one that three
\* workers support under LOW CONFIDENCE
AssessmentByCount ==
    <<[heading |-> "HIGH CONFIDENCE", evidence_from |-> {1, 2, 3}],
      [heading |-> "MEDIUM CONFIDENCE", evidence_from |-> {2, 4}],
      [heading |-> "LOW CONFIDENCE", evidence_from |-> {5}]>>

AssessmentOffCount ==
    <<[heading |-> "HIGH CONFIDENCE", evidence_from |-> {1}],
      [heading |-> "LOW CONFIDENCE", evidence_from |-> {3, 4, 5}]>>

CritiqueTexts == {AssessmentByCount, AssessmentOffCount}

JudgeTexts == {"verdict_a", "verdict_b"}

\* The evidence file: readable, missing or unreadable, or no path given
LogFiles == {"readable", "missing", "none"}

SinkOutcomes == {"stored", "client_error", "create_example_error"}

(***************************************************************************)
(* The graph of create_log_analysis_graph                                  *)
(***************************************************************************)
NumWorkers == 5

Slots == 1..NumWorkers

WorkerNode(i) == <<"worker1", "worker2", "worker3", "worker4", "worker5">>[i]

OutputKey(i) ==
    <<"worker1_output", "worker2_output", "worker3_output",
      "worker4_output", "worker5_output">>[i]

WorkerNodes == {WorkerNode(i) : i \in Slots}

Nodes == {"planner", "critique", "judge"} \cup WorkerNodes

EntryPoint == "planner"


\* Edges with the planner's fan-out built over range(1, 5): slot 5 has no edge
Edges_FanOutShort ==
    {<<"planner", WorkerNode(i)>> : i \in 1..(NumWorkers - 1)}
      \cup {<<WorkerNode(i), "critique">> : i \in Slots}
      \cup {<<"critique", "judge">>, <<"judge", "END">>}

\* Edges with critique wired to END: the judge node is never reached
Edges_JudgeUnreached ==
    {<<"planner", WorkerNode(i)>> : i \in Slots}
      \cup {<<WorkerNode(i), "critique">> : i \in Slots}
      \cup {<<"critique", "END">>, <<"judge", "END">>}

Edges ==
    {<<"planner", WorkerNode(i)>> : i \in Slots}
      \cup {<<WorkerNode(i), "critique">> : i \in Slots}
      \cup {<<"critique", "judge">>, <<"judge", "END">>}

\* The nodes of the next superstep: those with an edge from a node that just ran
Triggered(ran) == {n \in Nodes : \E m \in ran : <<m, n>> \in Edges}

(***************************************************************************)
(* State                                                                   *)
(***************************************************************************)
VARIABLES
    pc,           \* run_log_analysis: "start", "graph", "returned", "raised";
                  \* a direct call: "unit", "unit_returned"
    log_file,     \* the evidence file given to the run
    state,        \* the graph state: a function from the keys present to values
    active,       \* the nodes of the current superstep
    task,         \* per node: "idle", "running", "done" in the current superstep;
                  \* "hung" when its text-generation call does not return
    writes,       \* per node: the update its function returned in this superstep
    calls,        \* history: per node, how often its function was entered
    settled,      \* history: the workers in the order they returned
    llm_calls,    \* history: per node, the text-generation calls it made
    gen,          \* history: per node, the text its text-generation call returned
    llm_failed,   \* history: the nodes whose text-generation call raised
    critique_saw, \* the slots whose finding Critique put into its user message
    sink,         \* the example sink: "none", or the outcome of Judge's write
    content,      \* history: the planning response; <<>> before the planner ran
    planned,      \* history: the update the planner returned; <<>> before
    result,       \* what run_log_analysis returned; <<>> before it returns
    unit,         \* the function called directly, "none" in a run
    arg,          \* the text given to a direct call
    ret           \* what a direct call returned; <<>> before it returns

vars == <<pc, log_file, state, active, task, writes, calls, settled,
          llm_calls, gen, llm_failed, critique_saw, sink, content, planned, result,
          unit, arg, ret>>

NoText == "none"

Init ==
    /\ pc = "start"
    /\ log_file \in LogFiles
    /\ state = <<>>
    /\ active = {}
    /\ task = [n \in Nodes |-> "idle"]
    /\ writes = [n \in Nodes |-> <<>>]
    /\ calls = [n \in Nodes |-> 0]
    /\ settled = <<>>
    /\ llm_calls = [n \in Nodes |-> 0]
    /\ gen = [n \in Nodes |-> NoText]
    /\ llm_failed = {}
    /\ critique_saw = {}
    /\ sink = "none"
    /\ content = <<>>
    /\ planned = <<>>
    /\ result = <<>>
    /\ unit = "none"
    /\ arg = <<>>
    /\ ret = <<>>

(***************************************************************************)
(* run_log_analysis up to the graph's invocation                           *)
(***************************************************************************)
ITERATION_COUNT == 0

\* What read_crowdstrike_data returns: the sampled events as text, or, when
\* opening or reading the file raised, the text of its except branch
read_crowdstrike_data(file) ==
    IF file = "readable" THEN "events" ELSE "Error reading CrowdStrike data"

initial_state(log_content) ==
    [human_input       |-> "query",
     log_content       |-> log_content,
     max_iterations    |-> 3,
     workers_to_revise |-> <<>>,
     iteration_count   |-> 0]

\* The evidence is read (or the read error caught), the graph is built and
\* calls at its entry point
ReadEvidence ==
    /\ pc = "start"
    /\ log_file # "none"
    /\ pc' = "graph"
    /\ state' = initial_state(read_crowdstrike_data(log_file))
    /\ active' = {EntryPoint}
    /\ UNCHANGED <<log_file, task, writes, calls, settled, llm_calls, gen,
                   llm_failed, critique_saw, sink, content, planned, result,
                   unit, arg, ret>>

\* Without a path, file_path.endswith raises before the try block
ReadRaises ==
    /\ pc = "start"
    /\ log_file = "none"
    /\ pc' = "raised"
    /\ UNCHANGED <<log_file, state, active, task, writes, calls, settled,
                   llm_calls, gen, llm_failed, critique_saw, sink, content, planned, result,
                   unit, arg, ret>>

(***************************************************************************)
(* The node functions                                                      *)
(***************************************************************************)
Runnable(n) == pc = "graph" /\ n \in active /\ task[n] = "idle"

PlannerExcluded ==
    {"plan", "worker_definitions", "critique_output"} \cup {OutputKey(i) : i \in Slots}

\* PlannerResult copying the state with the evidence left empty
PlannerResult_DropsEvidence(st, response) ==
    LET parsed == ParsePlan(response)
        kept   == DOMAIN st \ PlannerExcluded
    IN  [k \in kept \cup {"plan", "worker_definitions"} |->
           IF k = "plan" THEN parsed.plan
           ELSE IF k = "worker_definitions" THEN parsed.worker_definitions
           ELSE IF k = "log_content" THEN ""
           ELSE st[k]]

\* The update Planner.__call__ returns for a planning response
PlannerResult(st, response) ==
    LET parsed == ParsePlan(response)
        kept   == DOMAIN st \ PlannerExcluded
    IN  [k \in kept \cup {"plan", "worker_definitions"} |->
           IF k = "plan" THEN parsed.plan
           ELSE IF k = "worker_definitions" THEN parsed.worker_definitions
           ELSE st[k]]

\* Planner raising on a response it cannot parse instead of returning an empty plan
Planner_StrictParse ==
    /\ Runnable("planner")
    /\ \E response \in PlannerResponses :
         /\ content' = response
         /\ IF Contains(response, PLAN) /\ Contains(response, WORKERS)
              THEN /\ writes' = [writes EXCEPT !["planner"] = PlannerResult(state, response)]
                   /\ task' = [task EXCEPT !["planner"] = "done"]
                   /\ pc' = pc
              ELSE /\ pc' = "raised"
                   /\ UNCHANGED <<writes, task>>
    /\ planned' = writes'["planner"]
    /\ calls' = [calls EXCEPT !["planner"] = @ + 1]
    /\ llm_calls' = [llm_calls EXCEPT !["planner"] = @ + 1]
    /\ UNCHANGED <<log_file, state, active, settled, gen, llm_failed,
                   critique_saw, sink, result, unit, arg, ret>>

\* The planner's text-generation call returns a response
Planner ==
    /\ Runnable("planner")
    /\ \E response \in PlannerResponses :
         /\ content' = response
         /\ writes' = [writes EXCEPT !["planner"] = PlannerResult(state, response)]
    /\ planned' = writes'["planner"]
    /\ task' = [task EXCEPT !["planner"] = "done"]
    /\ calls' = [calls EXCEPT !["planner"] = @ + 1]
    /\ llm_calls' = [llm_calls EXCEPT !["planner"] = @ + 1]
    /\ UNCHANGED <<pc, log_file, state, active, settled, gen, llm_failed,
                   critique_saw, sink, result,
                   unit, arg, ret>>


\* PlannerRaises with the failure caught and an empty plan returned
PlannerRaises_Swallowed ==
    /\ Runnable("planner")
    /\ writes' = [writes EXCEPT !["planner"] = PlannerResult(state, <<>>)]
    /\ task' = [task EXCEPT !["planner"] = "done"]
    /\ calls' = [calls EXCEPT !["planner"] = @ + 1]
    /\ llm_calls' = [llm_calls EXCEPT !["planner"] = @ + 1]
    /\ llm_failed' = llm_failed \cup {"planner"}
    /\ UNCHANGED <<pc, log_file, state, active, settled, gen, critique_saw,
                   sink, content, planned, result,
                   unit, arg, ret>>

\* The planner's text-generation call raises: nothing catches it
PlannerRaises ==
    /\ Runnable("planner")
    /\ calls' = [calls EXCEPT !["planner"] = @ + 1]
    /\ llm_calls' = [llm_calls EXCEPT !["planner"] = @ + 1]
    /\ pc' = "raised"
    /\ llm_failed' = llm_failed \cup {"planner"}
    /\ UNCHANGED <<log_file, state, active, task, writes, settled, gen,
                   critique_saw, sink, content, planned, result,
                   unit, arg, ret>>

Default == <<"D","e","f","a","u","l","t">>

\* state.get("worker_definitions", [])
WorkerDefs(st) ==
    IF "worker_definitions" \in DOMAIN st THEN st["worker_definitions"] ELSE <<>>

\* worker_func of slot num has an assignment, so it builds and calls a SecurityWorker
HasAssignment(st, num) == Len(WorkerDefs(st)) >= num

\* WorkerRole indexing worker_defs[num] instead of worker_defs[num - 1]
WorkerRole_NextAssignment(st, num) ==
    IF num < Len(WorkerDefs(st))
      THEN FactoryResolveRole(WorkerDefs(st)[num + 1].role)
      ELSE FactoryResolveRole(WorkerDefs(st)[num].role)

\* self.role of the SecurityWorker that WorkerFactory.create_worker builds
WorkerRole(st, num) == FactoryResolveRole(WorkerDefs(st)[num].role)


\* SecurityWorkerResult with the output key numbered by arrival, not by worker_id
SecurityWorkerResult_ByArrival(worker_id, role, text) ==
    OutputKey(Len(settled) + 1) :> [role |-> role, analysis |-> text]

\* SecurityWorkerResult with the response held in a variable the workers share:
\* the analysis is the text of the call that returned last before this one
SecurityWorkerResult_SharedResponse(worker_id, role, text) ==
    OutputKey(worker_id) :>
        [role |-> role,
         analysis |-> IF settled = <<>> THEN text
                      ELSE gen[WorkerNode(settled[Len(settled)])]]

\* The update SecurityWorker.__call__ returns when its call returned text
SecurityWorkerResult(worker_id, role, text) ==
    OutputKey(worker_id) :> [role |-> role, analysis |-> text]


\* PlaceholderResult with no update at all for a slot without an assignment
PlaceholderResult_Omitted(num) == <<>>

\* PlaceholderResult with the key of slot 1 for every slot
PlaceholderResult_FixedKey(num) ==
    OutputKey(1) :> [role |-> Default, analysis |-> "No specific role defined."]

\* The update worker_func returns for a slot without an assignment
PlaceholderResult(num) ==
    OutputKey(num) :> [role |-> Default, analysis |-> "No specific role defined."]

\* worker_func of slot i is entered
WorkerStart(i) ==
    /\ Runnable(WorkerNode(i))
    /\ task' = [task EXCEPT ![WorkerNode(i)] = "running"]
    /\ calls' = [calls EXCEPT ![WorkerNode(i)] = @ + 1]
    /\ UNCHANGED <<pc, log_file, state, active, writes, settled, llm_calls, gen,
                   llm_failed, critique_saw, sink, content, planned, result,
                   unit, arg, ret>>

\* worker_func of slot i returns: the finding of its SecurityWorker, whose
\* text-generation call returned, or the placeholder without any call
WorkerReturn(i) ==
    /\ pc = "graph"
    /\ task[WorkerNode(i)] = "running"
    /\ IF HasAssignment(state, i)
         THEN \E text \in WorkerTexts :
                /\ writes' = [writes EXCEPT ![WorkerNode(i)] =
                                SecurityWorkerResult(i, WorkerRole(state, i), text)]
                /\ gen' = [gen EXCEPT ![WorkerNode(i)] = text]
                /\ llm_calls' = [llm_calls EXCEPT ![WorkerNode(i)] = @ + 1]
         ELSE /\ writes' = [writes EXCEPT ![WorkerNode(i)] = PlaceholderResult(i)]
              /\ UNCHANGED <<gen, llm_calls,
                   unit, arg, ret>>
    /\ task' = [task EXCEPT ![WorkerNode(i)] = "done"]
    /\ settled' = Append(settled, i)
    /\ UNCHANGED <<pc, log_file, state, active, calls, llm_failed,
                   critique_saw, sink, content, planned, result,
                   unit, arg, ret>>

\* The text-generation call of the SecurityWorker of slot i raises: nothing
\* catches it, and it ends the graph's invocation
WorkerRaises(i) ==
    /\ pc = "graph"
    /\ task[WorkerNode(i)] = "running"
    /\ HasAssignment(state, i)
    /\ llm_calls' = [llm_calls EXCEPT ![WorkerNode(i)] = @ + 1]
    /\ pc' = "raised"
    /\ llm_failed' = llm_failed \cup {WorkerNode(i)}
    /\ UNCHANGED <<log_file, state, active, task, writes, calls, settled, gen,
                   critique_saw, sink, content, planned, result,
                   unit, arg, ret>>

\* The slots whose finding Critique.__call__ adds to its user message
SlotsInState(st) == {i \in Slots : OutputKey(i) \in DOMAIN st}

\* Critique's text-generation call returns
Critique ==
    /\ Runnable("critique")
    /\ critique_saw' = SlotsInState(state)
    /\ \E text \in CritiqueTexts :
         /\ writes' = [writes EXCEPT !["critique"] =
                         "critique_output" :> [assessment |-> text]]
         /\ gen' = [gen EXCEPT !["critique"] = text]
    /\ task' = [task EXCEPT !["critique"] = "done"]
    /\ calls' = [calls EXCEPT !["critique"] = @ + 1]
    /\ llm_calls' = [llm_calls EXCEPT !["critique"] = @ + 1]
    /\ UNCHANGED <<pc, log_file, state, active, settled, llm_failed, sink,
                   content, planned, result,
                   unit, arg, ret>>

\* Critique's text-generation call raises
CritiqueRaises ==
    /\ Runnable("critique")
    /\ critique_saw' = SlotsInState(state)
    /\ calls' = [calls EXCEPT !["critique"] = @ + 1]
    /\ llm_calls' = [llm_calls EXCEPT !["critique"] = @ + 1]
    /\ pc' = "raised"
    /\ llm_failed' = llm_failed \cup {"critique"}
    /\ UNCHANGED <<log_file, state, active, task, writes, settled, gen, sink,
                   content, planned, result,
                   unit, arg, ret>>


\* JudgeResult with the verdict lost when the sink's write raised
JudgeResult_LostOnSinkError(text, outcome) ==
    IF outcome = "stored"
      THEN "final_judgment" :> [evaluation |-> text]
      ELSE "final_judgment" :> [evaluation |-> "Failed to create LangSmith example"]

\* The update Judge.__call__ returns: the try block around the sink's client and
\* create_example catches every Exception, so the outcome of the write is not
\* part of it
JudgeResult(text, outcome) == "final_judgment" :> [evaluation |-> text]

\* Judge's text-generation call returns; the example is then written to the sink
Judge ==
    /\ Runnable("judge")
    /\ "critique_output" \in DOMAIN state
    /\ \E text \in JudgeTexts, outcome \in SinkOutcomes :
         /\ sink' = outcome
         /\ writes' = [writes EXCEPT !["judge"] = JudgeResult(text, outcome)]
         /\ gen' = [gen EXCEPT !["judge"] = text]
    /\ task' = [task EXCEPT !["judge"] = "done"]
    /\ calls' = [calls EXCEPT !["judge"] = @ + 1]
    /\ llm_calls' = [llm_calls EXCEPT !["judge"] = @ + 1]
    /\ UNCHANGED <<pc, log_file, state, active, settled, llm_failed,
                   critique_saw, content, planned, result,
                   unit, arg, ret>>

\* Judge's text-generation call raises, before the try block
JudgeRaises ==
    /\ Runnable("judge")
    /\ calls' = [calls EXCEPT !["judge"] = @ + 1]
    /\ llm_calls' = [llm_calls EXCEPT !["judge"] = @ + 1]
    /\ pc' = "raised"
    /\ llm_failed' = llm_failed \cup {"judge"}
    /\ UNCHANGED <<log_file, state, active, task, writes, settled, gen,
                   critique_saw, sink, content, planned, result,
                   unit, arg, ret>>

(***************************************************************************)
(* The graph's supersteps                                                  *)
(***************************************************************************)

\* StepComplete as soon as one node of the superstep has returned
StepComplete_AnyReturned == \E n \in active : task[n] = "done"

\* Every node of the superstep has returned
StepComplete == active # {} /\ \A n \in active : task[n] = "done"

\* The state after the updates of the nodes that ran are written to their keys
ApplyWrites(st, ws, ran) ==
    LET keys == UNION {DOMAIN ws[n] : n \in ran}
    IN  [k \in DOMAIN st \cup keys |->
           IF k \in keys
             THEN ws[CHOOSE n \in ran : k \in DOMAIN ws[n]][k]
             ELSE st[k]]

\* The superstep ends: the updates are merged and the next nodes are scheduled
Join ==
    /\ pc = "graph"
    /\ StepComplete
    /\ Triggered(active) # {}
    /\ state' = ApplyWrites(state, writes, active)
    /\ active' = Triggered(active)
    /\ task' = [n \in Nodes |-> "idle"]
    /\ writes' = [n \in Nodes |-> <<>>]
    /\ UNCHANGED <<pc, log_file, calls, settled, llm_calls, gen, llm_failed,
                   critique_saw, sink, content, planned, result,
                   unit, arg, ret>>

\* The last superstep ends: invoke returns the final state, and run_log_analysis
\* returns it with the iteration count
Return ==
    /\ pc = "graph"
    /\ StepComplete
    /\ Triggered(active) = {}
    /\ state' = ApplyWrites(state, writes, active)
    /\ result' = [state' EXCEPT !["iteration_count"] = ITERATION_COUNT]
    /\ pc' = "returned"
    /\ active' = {}
    /\ task' = [n \in Nodes |-> "idle"]
    /\ writes' = [n \in Nodes |-> <<>>]
    /\ UNCHANGED <<log_file, calls, settled, llm_calls, gen, llm_failed,
                   critique_saw, sink, content, planned,
                   unit, arg, ret>>

Next ==
    \/ ReadEvidence
    \/ ReadRaises
    \/ Planner
    \/ PlannerRaises
    \/ \E i \in Slots : WorkerStart(i)
    \/ \E i \in Slots : WorkerReturn(i)
    \/ \E i \in Slots : WorkerRaises(i)
    \/ Critique
    \/ CritiqueRaises
    \/ Judge
    \/ JudgeRaises
    \/ Join
    \/ Return

Spec == Init /\ [][Next]_vars

\* The interpreter runs every step that can run: a call that was made returns or
\* raises, a superstep whose nodes have all returned is joined
FairSpec == Spec /\ WF_vars(Next)

(***************************************************************************)
(* Runs in which a text-generation call of a worker may not return         *)
(***************************************************************************)
\* self.llm.invoke of the SecurityWorker of slot i never returns: the call has
\* no timeout of its own, worker_func and graph.invoke wait for it
WorkerHangs(i) ==
    /\ pc = "graph"
    /\ task[WorkerNode(i)] = "running"
    /\ HasAssignment(state, i)
    /\ task' = [task EXCEPT ![WorkerNode(i)] = "hung"]
    /\ llm_calls' = [llm_calls EXCEPT ![WorkerNode(i)] = @ + 1]
    /\ UNCHANGED <<pc, log_file, state, active, writes, calls, settled, gen,
                   llm_failed, critique_saw, sink, content, planned, result,
                   unit, arg, ret>>

HangNext ==
    \/ Next
    \/ \E i \in Slots : WorkerHangs(i)

\* Every step the program can take is taken; a call that hangs has no step
HangSpec == Init /\ [][HangNext]_vars /\ WF_vars(HangNext)

(***************************************************************************)
(* Direct calls: the planner on one response, the planner's role           *)
(* validation and the worker factory on one label                          *)
(***************************************************************************)
\* The substrings of a text, the empty one included
SlicesOf(r) == {Slice(r, a, b) : a \in 1..(Len(r) + 1), b \in 1..(Len(r) + 1)}

Zed == <<"Z","e","d">>

\* Role labels: the role names as listed and lower-cased, the substrings of
\* some of them in both cases, and labels that occur in no role name
Labels ==
    UNION {{planner_valid_roles[i], Lower(planner_valid_roles[i])} :
              i \in 1..Len(planner_valid_roles)}
      \cup SlicesOf(InitialAccess)
      \cup SlicesOf(Lower(LateralMovement))
      \cup {Zed, Default, <<"E","v","a","s","i","o","n">>, <<"A","C","C","E","S","S">>,
            <<"P","r","i","v","i","l","e","g","e","d">>}

\* The labels the planner validates: group 2 of a match, stripped, without asterisks
PlannerLabels == {l \in Labels : Strip(l) = l}

Narratives == {<<"p">>, <<"l","o","o","k"," ","a","t"," ","i","t">>}

RoundTripLabels == {Lateral, Zed, InitialAccess, Execution}

TaskTexts == {<<"a">>, <<"c","h","e","c","k"," ","l","o","g","i","n","s">>}

\* "PLAN: <narrative> WORKERS: 1. <roleA>: <taskA> 2. <roleB>: <taskB>"
WellFormed(n, rA, tA, rB, tB) ==
    PLAN \o <<" ">> \o n \o <<" ">> \o WORKERS \o <<" ">>
      \o Line("1", rA, tA) \o <<" ">> \o Line("2", rB, tB)

WellFormedResponses ==
    {WellFormed(n, rA, tA, rB, tB) :
        n \in Narratives, rA \in RoundTripLabels, tA \in TaskTexts,
        rB \in RoundTripLabels, tB \in TaskTexts}

\* Responses that lack a marker: the workers marker, the plan marker, the
\* colon of the plan marker, the upper case of both
ResponseOnlyPlan == PLAN \o <<" ", "p", " ">> \o Line("1", Zed, <<"a">>)

ResponseOnlyWorkers == WORKERS \o <<" ">> \o Line("1", Lateral, <<"a">>)

ResponsePlanNoColon ==
    <<"P","L","A","N"," ","p"," ">> \o WORKERS \o <<" ">> \o Line("1", Lateral, <<"a">>)

ResponseLowerCase == Lower(WellFormed(<<"p">>, Lateral, <<"a">>, Zed, <<"b">>))

\* Task texts of numbered lines: plain, with an IP address, with a version
\* number, with a colon
NumberedTasks ==
    {<<"a">>,
     <<"s","c","a","n"," ","1","0",".","1",".","1",".","5"," ","n","o","w">>,
     <<"u","s","e"," ","v","2",".","1"," ","t","o","o","l">>,
     <<"u","s","e","r",":"," ","a","d","m","i","n">>}

MaxLines == 3

\* The label of the i-th numbered line
NumberedLabel(i) ==
    <<Lateral, Zed, <<"E","v","a","s","i","o","n">>, <<"P","r","i","v","i","l","e","g","e">>>>[((i - 1) % 4) + 1]

TaskLists == UNION {[1..k -> NumberedTasks] : k \in 1..MaxLines}

\* The lines "i. <label>: <task>" from line i on, each on a line of its own
RECURSIVE NumberedLines(_, _)
NumberedLines(ts, i) ==
    IF i > Len(ts) THEN <<>>
    ELSE NL \o Line(<<"1", "2", "3", "4", "5", "6", "7", "8", "9">>[i], NumberedLabel(i), ts[i]) \o NumberedLines(ts, i + 1)

\* A response whose workers section has one numbered line per task of ts
Numbered(ts) == PLAN \o <<" ", "p">> \o NL \o WORKERS \o NumberedLines(ts, 1)

NumberedResponses == {Numbered(ts) : ts \in TaskLists}

UnitResponses ==
    PlannerResponses \cup WellFormedResponses \cup NumberedResponses
      \cup {ResponseOnlyPlan, ResponseOnlyWorkers, ResponsePlanNoColon,
            ResponseLowerCase}

\* No run: one function is called on one text
UnitInit ==
    /\ pc = "unit"
    /\ \/ unit = "validate_role" /\ arg \in PlannerLabels
       \/ unit = "create_worker" /\ arg \in Labels
       \/ unit = "planner" /\ arg \in UnitResponses
    /\ ret = <<>>
    /\ log_file = "readable"
    /\ state = <<>>
    /\ active = {}
    /\ task = [n \in Nodes |-> "idle"]
    /\ writes = [n \in Nodes |-> <<>>]
    /\ calls = [n \in Nodes |-> 0]
    /\ settled = <<>>
    /\ llm_calls = [n \in Nodes |-> 0]
    /\ gen = [n \in Nodes |-> NoText]
    /\ llm_failed = {}
    /\ critique_saw = {}
    /\ sink = "none"
    /\ content = <<>>
    /\ planned = <<>>
    /\ result = <<>>

run_vars ==
    <<log_file, state, active, task, writes, calls, settled, llm_calls, gen,
      llm_failed, critique_saw, sink, content, planned, result>>

\* The role validation inside Planner.__call__, applied to the label arg
ValidateRole ==
    /\ pc = "unit" /\ unit = "validate_role"
    /\ ret' = PlannerResolveRole(arg)
    /\ pc' = "unit_returned"
    /\ UNCHANGED <<run_vars, unit, arg>>

\* WorkerFactory.create_worker(worker_id, arg, tasks), and the worker it built
\* called once, its text-generation call returning text
CreateWorker ==
    /\ pc = "unit" /\ unit = "create_worker"
    /\ \E worker_id \in Slots, text \in WorkerTexts :
         ret' = SecurityWorkerResult(worker_id, FactoryResolveRole(arg), text)
    /\ pc' = "unit_returned"
    /\ UNCHANGED <<run_vars, unit, arg>>

\* Planner.__call__ on the initial state, its chain answering with the response arg
PlannerCall ==
    /\ pc = "unit" /\ unit = "planner"
    /\ ret' = PlannerResult(initial_state(read_crowdstrike_data("readable")), arg)
    /\ pc' = "unit_returned"
    /\ UNCHANGED <<run_vars, unit, arg>>

UnitNext ==
    \/ ValidateRole
    \/ CreateWorker
    \/ PlannerCall

UnitSpec == UnitInit /\ [][UnitNext]_vars

(***************************************************************************)
(* Properties                                                              *)
(***************************************************************************)
WorkerCallRaised(i) == WorkerNode(i) \in llm_failed

Verdict(r) == "final_judgment" \in DOMAIN r

\* C1: when the text-generation call of the worker in slot i raises, the run
\* does not abort: it returns a result with all 5 slots, slot i holding a
\* finding with the slot's role, and with a verdict.
C1_WorkerFailureYieldsSentinel ==
    \A i \in Slots :
        WorkerCallRaised(i) =>
            /\ pc # "raised"
            /\ pc = "returned" =>
                 /\ SlotsInState(result) = Slots
                 /\ result[OutputKey(i)].role = WorkerRole(result, i)
                 /\ Verdict(result)

\* C2: when the call of the worker in slot i raises, the run goes on and, once
\* Critique has run, every other slot's finding was in the record it read.
C2_SiblingsSurviveFailure ==
    \A i \in Slots :
        WorkerCallRaised(i) =>
            /\ pc \in {"graph", "returned"}
            /\ calls["critique"] > 0 => (Slots \ {i}) \subseteq critique_saw

\* C3: Critique and Judge run only after all 5 workers have returned and their
\* findings are in the state: the record Critique read has every slot, and
\* whenever Critique or Judge is scheduled or has run, every worker output key
\* is present.
C3_JoinBarrier ==
    /\ calls["critique"] > 0 =>
         /\ critique_saw = Slots
         /\ Len(settled) = NumWorkers
    /\ (active \cap {"critique", "judge"} # {} \/ calls["judge"] > 0) =>
         SlotsInState(state) = Slots

C3_CritiqueRan == calls["critique"] = 1 /\ critique_saw = Slots /\ settled[1] = 3

\* The finding slot i holds by its assignment and its own call's text
ExpectedFinding(i) ==
    IF HasAssignment(state, i)
      THEN [role |-> WorkerRole(state, i), analysis |-> gen[WorkerNode(i)]]
      ELSE [role |-> Default, analysis |-> "No specific role defined."]

\* C4: whatever the order in which the 5 workers returned, the merged record
\* maps each slot to the finding of that slot's worker, and holds the parsed
\* plan: it is determined by the slots, not by the order of arrival.
C4_MergeKeyedBySlot ==
    SlotsInState(state) = Slots =>
        /\ \A i \in Slots : state[OutputKey(i)] = ExpectedFinding(i)
        /\ state["plan"] = planned["plan"]
        /\ state["worker_definitions"] = planned["worker_definitions"]

C4_MergedInReverseOrder ==
    /\ SlotsInState(state) = Slots
    /\ settled = <<5, 4, 3, 2, 1>>
    /\ Len(state["worker_definitions"]) = NumWorkers

\* C5: the update a worker returns has exactly the key of its own slot, on the
\* placeholder path as on the generated path.
C5_SingleWriter ==
    \A i \in Slots :
        task[WorkerNode(i)] = "done" => DOMAIN writes[WorkerNode(i)] = {OutputKey(i)}

C5_BothPathsReturned ==
    /\ task[WorkerNode(2)] = "done" /\ HasAssignment(state, 2)
    /\ task[WorkerNode(4)] = "done" /\ ~HasAssignment(state, 4)

\* C6: when the evidence file cannot be read, no node is entered, no
\* text-generation call is made and the run does not return a result.
C6_ReadFailureStopsRun ==
    log_file # "readable" =>
        /\ \A n \in Nodes : calls[n] = 0 /\ llm_calls[n] = 0
        /\ pc # "returned"

\* C7: when the planner's text-generation call raises, the run raises: no
\* worker, Critique or Judge is entered and no verdict or result is produced.
C7_PlanningFailureFatal ==
    "planner" \in llm_failed =>
        /\ pc = "raised"
        /\ \A n \in Nodes \ {"planner"} : calls[n] = 0 /\ llm_calls[n] = 0
        /\ ~Verdict(state)
        /\ result = <<>>

C7_PlannerCallRaised == "planner" \in llm_failed /\ calls["planner"] = 1

\* C8: a finished run raised exactly when planning failed or the evidence could
\* not be read, and otherwise returned a result with a verdict.
C8_VerdictUnlessPlanningOrRead ==
    pc \in {"returned", "raised"} =>
        /\ pc = "raised" <=> ("planner" \in llm_failed \/ log_file # "readable")
        /\ pc = "returned" => Verdict(result)

\* C9: whatever the outcome of the sink's write, the run does not raise in
\* Judge, and the verdict Judge returns and the run's result carries is the text
\* its text-generation call returned.
C9_SinkFailureSwallowed ==
    /\ sink # "none" => pc # "raised"
    /\ task["judge"] = "done" =>
         writes["judge"] = ("final_judgment" :> [evaluation |-> gen["judge"]])
    /\ pc = "returned" => result["final_judgment"] = [evaluation |-> gen["judge"]]

C9_ReturnedAfterSinkError ==
    pc = "returned" /\ sink = "create_example_error" /\ Verdict(result)

\* C10: no node is entered twice; a worker is entered only after the planner
\* has finished, Critique only after every worker has finished, Judge only
\* after Critique has finished; a run that returns entered each node once.
C10_StageOrdering ==
    /\ \A n \in Nodes : calls[n] <= 1
    /\ \A i \in Slots :
         calls[WorkerNode(i)] > 0 => calls["planner"] = 1 /\ "plan" \in DOMAIN state
    /\ calls["critique"] > 0 =>
         \A i \in Slots : calls[WorkerNode(i)] = 1 /\ OutputKey(i) \in DOMAIN state
    /\ calls["judge"] > 0 =>
         calls["critique"] = 1 /\ "critique_output" \in DOMAIN state
    /\ pc = "returned" => \A n \in Nodes : calls[n] = 1

C10_AllStagesRan == pc = "returned" /\ \A n \in Nodes : calls[n] = 1

\* The result holds the plan, a finding for every slot, the aggregator's output
\* and the verdict
ResultComplete(r) ==
    /\ "plan" \in DOMAIN r
    /\ "worker_definitions" \in DOMAIN r
    /\ SlotsInState(r) = Slots
    /\ "critique_output" \in DOMAIN r
    /\ Verdict(r)

\* C11 as stated: in every run in which no text-generation call raises, the
\* run eventually returns a result with the plan, all 5 findings, the
\* aggregator's output and the verdict.
C11_TerminatesWithFullResult ==
    <>(llm_failed # {} \/ (pc = "returned" /\ ResultComplete(result)))

\* C11, amended: in every run that is given an evidence path and in which no
\* text-generation call raises, the run eventually returns a result with the
\* plan, all 5 findings, the aggregator's output and the verdict.
C11_TerminatesWhenEvidencePathGiven ==
    (log_file # "none") =>
        <>(llm_failed # {} \/ (pc = "returned" /\ ResultComplete(result)))

C11_ReturnedFullResult ==
    /\ pc = "returned" /\ llm_failed = {} /\ ResultComplete(result)
    /\ log_file = "missing" /\ Len(result["worker_definitions"]) = 2

\* A direct call of fn has returned
Returned(fn) == unit = fn /\ pc = "unit_returned"

\* C12: for every planning response, the plan the planner returns has at most
\* 5 assignments.
C12_AtMostFiveAssignments ==
    Returned("planner") => Len(ret["worker_definitions"]) <= NumWorkers

PlaceholderFinding == [role |-> Default, analysis |-> "No specific role defined."]

\* C13 as stated: in the result of a run whose plan has k < 5 assignments, every
\* slot i > k is filled, and its placeholder has the default role (the
\* placeholder's, or the resolver's) and the task "none".
C13_PlaceholderAssignment ==
    pc = "returned" =>
        \A i \in Slots :
            ~HasAssignment(result, i) =>
                /\ OutputKey(i) \in DOMAIN result
                /\ result[OutputKey(i)].role \in {Default, Discovery}
                /\ "tasks" \in DOMAIN result[OutputKey(i)]
                /\ result[OutputKey(i)].tasks = <<"n","o","n","e">>

\* C13, amended: a slot i > k is filled with the finding whose role is
\* "Default" and whose analysis is "No specific role defined.", without a
\* text-generation call; it has no task and the plan gets no assignment for
\* it; the result of a run that returns has all 5 slots.
C13_PlaceholderFinding ==
    /\ \A i \in Slots :
         (OutputKey(i) \in DOMAIN state /\ ~HasAssignment(state, i)) =>
             /\ state[OutputKey(i)] = PlaceholderFinding
             /\ llm_calls[WorkerNode(i)] = 0
    /\ pc = "returned" =>
         /\ SlotsInState(result) = Slots
         /\ Len(result["worker_definitions"]) = Len(planned["worker_definitions"])

C13_SlotsThreeToFivePlaceholders ==
    /\ pc = "returned" /\ log_file = "readable"
    /\ Len(result["worker_definitions"]) = 2
    /\ \A i \in 3..5 : result[OutputKey(i)] = PlaceholderFinding
    /\ result[OutputKey(2)].role = Discovery

\* The closed set of specialist roles, in the order the claims give
CanonicalOrder ==
    <<InitialAccess, Execution, Persistence, PrivilegeEscalation, DefenseEvasion,
      CredentialAccess, Discovery, LateralMovement, Collection, Exfiltration>>

ClosedRoleSet == {CanonicalOrder[i] : i \in 1..Len(CanonicalOrder)}

\* A resolver was called directly and has returned
Resolved == Returned("validate_role") \/ Returned("create_worker")

\* The role a resolver returned: the planner's validation returns it, the
\* worker built by the factory carries it in its finding
ResolvedRole ==
    IF unit = "validate_role" THEN ret
    ELSE ret[CHOOSE k \in DOMAIN ret : TRUE].role

\* The canonical names of which the label is a case-insensitive substring
Matches(label) == {r \in ClosedRoleSet : Contains(Lower(r), Lower(label))}

\* C14: a label that equals a canonical role name is resolved to itself, by the
\* planner's validation and by the worker factory.
C14_IdentityOnCanonical ==
    (Resolved /\ arg \in ClosedRoleSet) => ResolvedRole = arg

C14_FactoryResolvedCanonical ==
    Returned("create_worker") /\ arg = LateralMovement /\ ResolvedRole = LateralMovement

\* C15: a label that is a case-insensitive substring of exactly one canonical
\* name is resolved to that name, and a label that is a substring of none is
\* resolved to "Discovery Specialist"; both resolvers return for every label.
C15_UniqueOrDefault ==
    /\ Resolved =>
         /\ Cardinality(Matches(arg)) = 1 => ResolvedRole \in Matches(arg)
         /\ Matches(arg) = {} => ResolvedRole = Discovery
    /\ (pc = "unit" /\ unit \in {"validate_role", "create_worker"}) =>
         ENABLED (ValidateRole \/ CreateWorker)

C15_LowerCaseLabelResolved ==
    /\ Returned("validate_role")
    /\ arg = <<"l","a","t","e","r","a","l">>
    /\ Matches(arg) = {LateralMovement}
    /\ ret = LateralMovement

\* C16: a label that is no canonical name and is a case-insensitive substring of
\* several is resolved to the first of them in the list order; the role is a
\* function of the label alone, the same for either resolver and every call.
C16_FirstInListOrder ==
    (Resolved /\ arg \notin ClosedRoleSet /\ Cardinality(Matches(arg)) >= 2) =>
        LET hits == {i \in 1..Len(CanonicalOrder) : CanonicalOrder[i] \in Matches(arg)}
        IN  ResolvedRole = CanonicalOrder[CHOOSE i \in hits : \A j \in hits : i <= j]

C16_AccessResolvedToInitialAccess ==
    /\ Returned("validate_role")
    /\ arg = <<"A","c","c","e","s","s">>
    /\ Matches(arg) = {InitialAccess, CredentialAccess}
    /\ ret = InitialAccess

\* C17: whatever the label, a resolver returns a member of the closed set; so
\* does every role in the assignments the planner returns and the role of every
\* finding a worker built by the factory returns.
C17_RoleInClosedSet ==
    /\ Resolved => ResolvedRole \in ClosedRoleSet
    /\ Returned("create_worker") => \A k \in DOMAIN ret : ret[k].role \in ClosedRoleSet
    /\ Returned("planner") =>
         \A i \in 1..Len(ret["worker_definitions"]) :
             ret["worker_definitions"][i].role \in ClosedRoleSet

C17_UnknownLabelPlanned ==
    /\ Returned("planner")
    /\ arg = ResponseTwo
    /\ ret["worker_definitions"][2].role = Discovery

\* C18: for a response that lacks the plan marker or the workers marker, the
\* planner returns its usual update, with an empty narrative and no assignment.
C18_MissingMarkerEmptyPlan ==
    (Returned("planner") /\ ~(Contains(arg, PLAN) /\ Contains(arg, WORKERS))) =>
        /\ ret["plan"] = <<>>
        /\ ret["worker_definitions"] = <<>>
        /\ DOMAIN ret = DOMAIN initial_state("events") \cup {"plan", "worker_definitions"}

C18_OnlyWorkersMarker ==
    /\ Returned("planner")
    /\ arg = ResponseOnlyWorkers
    /\ ret["plan"] = <<>>

\* C19: for a response "PLAN: n WORKERS: 1. rA: tA 2. rB: tB" the planner
\* returns the narrative n, trimmed, and exactly the two assignments (resolved
\* rA, tA) and (resolved rB, tB), in this order.
C19_RoundTrip ==
    Returned("planner") =>
        \A n \in Narratives, rA \in RoundTripLabels, tA \in TaskTexts,
           rB \in RoundTripLabels, tB \in TaskTexts :
            arg = WellFormed(n, rA, tA, rB, tB) =>
                /\ ret["plan"] = Strip(n)
                /\ ret["worker_definitions"] =
                     <<[role |-> PlannerResolveRole(rA), tasks |-> tA],
                       [role |-> PlannerResolveRole(rB), tasks |-> tB]>>

\* The tier the thresholds give a corroboration count
TierOf(count) ==
    IF count >= 3 THEN "HIGH CONFIDENCE"
    ELSE IF count = 2 THEN "MEDIUM CONFIDENCE"
    ELSE "LOW CONFIDENCE"

\* C20: every scored finding of the aggregator's output has the tier its
\* corroboration count gives: 3 or more High, 2 Medium, 1 Low.
C20_TierByCorroboration ==
    "critique_output" \in DOMAIN state =>
        LET scored == state["critique_output"].assessment
        IN  \A k \in 1..Len(scored) :
                scored[k].heading = TierOf(Cardinality(scored[k].evidence_from))

\* The keys of the request, the plan, the findings and the aggregator's output
EntityKeys ==
    {"human_input", "log_content", "plan", "worker_definitions", "critique_output"}
      \cup {OutputKey(i) : i \in Slots}

\* C21: a key of the request, the plan, a finding or the aggregator's output
\* that is in the case record stays in it with the same value in every later
\* step, and the result that is returned carries it with that value.
C21_AppendOnly ==
    [][\A k \in EntityKeys \cap DOMAIN state :
          /\ k \in DOMAIN state'
          /\ state'[k] = state[k]
          /\ pc' = "returned" => result'[k] = state[k]]_vars

C21_AllEntitiesReturned ==
    /\ pc = "returned" /\ sink = "stored"
    /\ EntityKeys \subseteq DOMAIN result
    /\ result["log_content"] = "events"
    /\ Len(result["worker_definitions"]) = NumWorkers

WorkerHung(i) == task[WorkerNode(i)] = "hung"

\* C22: when the text-generation call of a worker does not return, the run
\* still ends: unless another call raises, it eventually returns a result with
\* a finding in every slot, the hung one included, and a verdict.
C22_TimeoutCancelsPending ==
    (\E i \in Slots : WorkerHung(i)) ~>
        (llm_failed # {}
           \/ (pc = "returned" /\ SlotsInState(result) = Slots /\ Verdict(result)))

\* The assignments the planner returned
Assignments == planned["worker_definitions"]

\* C23: the worker of a slot i that has an assignment returns, under the key of
\* slot i, a finding with the role of the i-th assignment and the text of its
\* own call, and that is the finding the case record holds for slot i; only
\* the 5 slots make calls, one each, so an assignment beyond the fifth reaches
\* no worker and no finding.
C23_SlotBinding ==
    \A i \in Slots :
        /\ llm_calls[WorkerNode(i)] <= 1
        /\ (task[WorkerNode(i)] = "done" /\ i <= Len(Assignments)) =>
             writes[WorkerNode(i)] =
                 (OutputKey(i) :> [role |-> Assignments[i].role,
                                   analysis |-> gen[WorkerNode(i)]])
        /\ (OutputKey(i) \in DOMAIN state /\ i <= Len(Assignments)) =>
             state[OutputKey(i)] =
                 [role |-> Assignments[i].role, analysis |-> gen[WorkerNode(i)]]

C23_SixthAssignmentUnbound ==
    /\ pc = "returned"
    /\ Len(result["worker_definitions"]) = 6
    /\ result["worker_definitions"][6].role = Exfiltration
    /\ \A i \in Slots : result[OutputKey(i)].role = result["worker_definitions"][i].role

\* What slot i's worker returns, from the case record the superstep started
\* with and the text of its own call
OwnFinding(i) ==
    OutputKey(i) :>
        (IF HasAssignment(state, i)
           THEN [role |-> state["worker_definitions"][i].role,
                 analysis |-> gen[WorkerNode(i)]]
           ELSE PlaceholderFinding)

\* C24: the finding a worker has returned is given by the plan's assignment
\* for its slot and the text of its own call, whatever the other workers have
\* done so far (started, returned in any order, raised); and no step of another
\* worker changes a finding that was returned.
C24_WorkersIndependent ==
    /\ [](\A i \in Slots : task[WorkerNode(i)] = "done" => writes[WorkerNode(i)] = OwnFinding(i))
    /\ [][\A i \in Slots :
            (task[WorkerNode(i)] = "done" /\ task'[WorkerNode(i)] = "done")
                => writes'[WorkerNode(i)] = writes[WorkerNode(i)]]_vars

C24_ReturnedBesideFailedSibling ==
    /\ settled = <<2, 1>>
    /\ writes[WorkerNode(1)] = (OutputKey(1) :> [role |-> InitialAccess, analysis |-> "analysis_a"])
    /\ gen[WorkerNode(2)] = "analysis_b"
    /\ WorkerCallRaised(3)
    /\ task[WorkerNode(4)] = "running"

\* The planner got a response that lacks a marker
UnparsedResponse ==
    content # <<>> /\ ~(Contains(content, PLAN) /\ Contains(content, WORKERS))

\* C25: after a planning response that lacks a marker the run raises only if
\* the call of Critique or of Judge raises; no worker makes a text-generation
\* call, every slot's finding is the placeholder, and unless a call raises the
\* run eventually returns, every node entered once, with all 5 slots and a
\* verdict.
C25_UnparsedPlanRecovered ==
    /\ [](UnparsedResponse =>
            /\ \A i \in Slots :
                 /\ llm_calls[WorkerNode(i)] = 0
                 /\ OutputKey(i) \in DOMAIN state => state[OutputKey(i)] = PlaceholderFinding
            /\ pc = "raised" => llm_failed \cap {"critique", "judge"} # {}
            /\ pc = "returned" =>
                 /\ \A n \in Nodes : calls[n] = 1
                 /\ SlotsInState(result) = Slots
                 /\ Verdict(result))
    /\ (UnparsedResponse ~> (llm_failed # {} \/ (pc = "returned" /\ Verdict(result))))

C25_VerdictOnPlaceholders ==
    /\ pc = "returned" /\ content = ResponseNoMarkers
    /\ result["worker_definitions"] = <<>>
    /\ \A i \in Slots : result[OutputKey(i)] = PlaceholderFinding
    /\ Verdict(result)

\* C26: for a workers section of k numbered lines "i. <label>: <task>" the
\* planner returns exactly k assignments, the i-th with the resolved label and
\* the whole task text of line i, also when a task text holds a number
\* followed by a period, or a colon.
C26_OneAssignmentPerLine ==
    Returned("planner") =>
        \A ts \in TaskLists :
            arg = Numbered(ts) =>
                ret["worker_definitions"] =
                    [i \in 1..Len(ts) |->
                        [role |-> PlannerResolveRole(NumberedLabel(i)), tasks |-> ts[i]]]

====
